---- MODULE Spec2Model ----
(***************************************************************************)
(* Model of historai's Zsh history reader (internal/history/zsh.go):       *)
(* ReadHistory opens the history file, parseHistory scans it line by line  *)
(* into HistoryEntry records, applyLimitFilter keeps the most recent ones. *)
(*                                                                         *)
(* Text is modelled as it is in the program: a string is a sequence of     *)
(* bytes (0..255).  An int64 is modelled by its decimal numeral, a         *)
(* sequence of digits 0..9 without leading zeros, because the values at    *)
(* the edge of the int64 range need more than 32 bits.                     *)
(***************************************************************************)
EXTENDS Integers, Sequences, FiniteSets

\* ------------------------------------------------------------------------
\* Bounds of the model.
\* ------------------------------------------------------------------------

\* Longest stream, in lines, that the scanner delivers.
MaxLines == 3

\* Largest limit handed to ReadHistory (the smallest is -1).
MaxLimit == 4

\* ------------------------------------------------------------------------
\* Bytes and runes (unicode/utf8, strings).
\* ------------------------------------------------------------------------

\* "\uFFFD", the replacement string: U+FFFD encoded as EF BF BD.
Replacement == <<239, 191, 189>>

\* utf8.first / utf8.acceptRanges: the size of the encoding a first byte
\* announces (0: the byte cannot start an encoding) ...
RuneSize(b) ==
    IF b < 128 THEN 1
    ELSE IF b >= 194 /\ b <= 223 THEN 2
    ELSE IF b >= 224 /\ b <= 239 THEN 3
    ELSE IF b >= 240 /\ b <= 244 THEN 4
    ELSE 0

\* ... and the range its second byte must lie in.
AcceptLo(b) ==
    IF b = 224 THEN 160 ELSE IF b = 240 THEN 144 ELSE 128

AcceptHi(b) ==
    IF b = 237 THEN 159 ELSE IF b = 244 THEN 143 ELSE 191

IsContinuationByte(b) == b >= 128 /\ b <= 191

\* utf8.DecodeRuneInString(s[i:]): the width of the rune at position i, or 0
\* when the bytes at i are no valid encoding (Go then reports RuneError with
\* width 1).
DecodeWidth(s, i) ==
    LET n  == Len(s) - i + 1
        sz == RuneSize(s[i])
    IN  IF sz = 0 \/ n < sz THEN 0
        ELSE IF sz = 1 THEN 1
        ELSE IF s[i + 1] < AcceptLo(s[i]) \/ s[i + 1] > AcceptHi(s[i]) THEN 0
        ELSE IF sz = 2 THEN 2
        ELSE IF ~IsContinuationByte(s[i + 2]) THEN 0
        ELSE IF sz = 3 THEN 3
        ELSE IF ~IsContinuationByte(s[i + 3]) THEN 0
        ELSE 4

RECURSIVE ValidFrom(_, _)
ValidFrom(s, i) ==
    IF i > Len(s) THEN TRUE
    ELSE LET w == DecodeWidth(s, i)
         IN  IF w = 0 THEN FALSE ELSE ValidFrom(s, i + w)

\* utf8.Valid / utf8.ValidString
Valid(s) == ValidFrom(s, 1)

\* strings.ToValidUTF8(s, "\uFFFD"): the loop over the bytes of s; invalid
\* says that the previous byte was part of an invalid run, so that a run of
\* invalid bytes gets one replacement.
RECURSIVE ToValidFrom(_, _, _, _)
ToValidFrom(s, i, invalid, b) ==
    IF i > Len(s) THEN b
    ELSE LET w == DecodeWidth(s, i)
         IN  IF w = 0
             THEN ToValidFrom(s, i + 1, TRUE,
                              IF invalid THEN b ELSE b \o Replacement)
             ELSE ToValidFrom(s, i + w, FALSE, b \o SubSeq(s, i, i + w - 1))

ToValidUTF8(s) ==
    IF Valid(s) THEN s ELSE ToValidFrom(s, 1, FALSE, <<>>)

\* unicode.IsSpace, as the encodings of the runes it accepts: \t \n \v \f \r
\* and space, U+0085, U+00A0, U+1680, U+2000..U+200A, U+2028, U+2029,
\* U+202F, U+205F, U+3000.
SpaceRunes ==
    {<<9>>, <<10>>, <<11>>, <<12>>, <<13>>, <<32>>}
        \cup {<<194, 133>>, <<194, 160>>, <<225, 154, 128>>}
        \cup {<<226, 128, b>> : b \in 128..138}
        \cup {<<226, 128, 168>>, <<226, 128, 169>>, <<226, 128, 175>>}
        \cup {<<226, 129, 159>>, <<227, 128, 128>>}

\* The width of the white-space rune that starts at i (0: none does).
SpaceWidthAt(s, i) ==
    IF \E w \in 1..3 : i + w - 1 <= Len(s) /\ SubSeq(s, i, i + w - 1) \in SpaceRunes
    THEN CHOOSE w \in 1..3 : i + w - 1 <= Len(s) /\ SubSeq(s, i, i + w - 1) \in SpaceRunes
    ELSE 0

\* The width of the white-space rune that ends at j (0: none does).
SpaceWidthBefore(s, i, j) ==
    IF \E w \in 1..3 : j - w + 1 >= i /\ SubSeq(s, j - w + 1, j) \in SpaceRunes
    THEN CHOOSE w \in 1..3 : j - w + 1 >= i /\ SubSeq(s, j - w + 1, j) \in SpaceRunes
    ELSE 0

RECURSIVE TrimLeftFrom(_, _)
TrimLeftFrom(s, i) ==
    IF i > Len(s) \/ SpaceWidthAt(s, i) = 0 THEN i
    ELSE TrimLeftFrom(s, i + SpaceWidthAt(s, i))

RECURSIVE TrimRightTo(_, _, _)
TrimRightTo(s, i, j) ==
    IF j < i \/ SpaceWidthBefore(s, i, j) = 0 THEN j
    ELSE TrimRightTo(s, i, j - SpaceWidthBefore(s, i, j))

\* strings.TrimSpace
TrimSpace(s) ==
    LET i == TrimLeftFrom(s, 1)
        j == TrimRightTo(s, i, Len(s))
    IN  SubSeq(s, i, j)

\* strings.HasSuffix(s, "\\")
HasSuffixBackslash(s) == Len(s) > 0 /\ s[Len(s)] = 92

\* ------------------------------------------------------------------------
\* int64 values as decimal numerals.
\* ------------------------------------------------------------------------

\* math.MaxInt64 = 9223372036854775807
MaxInt64 == <<9, 2, 2, 3, 3, 7, 2, 0, 3, 6, 8, 5, 4, 7, 7, 5, 8, 0, 7>>

\* The zero value of int64 (var currentTimestamp int64).
ZeroInt64 == <<0>>

RECURSIVE StripZeros(_)
StripZeros(d) ==
    IF Len(d) > 1 /\ d[1] = 0 THEN StripZeros(Tail(d)) ELSE d

\* a <= b for two numerals of the same length
RECURSIVE LexLeq(_, _)
LexLeq(a, b) ==
    IF a = <<>> THEN TRUE
    ELSE IF a[1] # b[1] THEN a[1] < b[1]
    ELSE LexLeq(Tail(a), Tail(b))

NumLeq(a, b) ==
    Len(a) < Len(b) \/ (Len(a) = Len(b) /\ LexLeq(a, b))

\* strconv.ParseInt(s, 10, 64) with the error dropped, for s a non-empty
\* string of ASCII digits (all that the header pattern lets through): the
\* value, or the largest int64 when the value is out of range.
ParseInt(s) ==
    LET v == StripZeros([k \in 1..Len(s) |-> s[k] - 48])
    IN  IF NumLeq(v, MaxInt64) THEN v ELSE MaxInt64

\* ------------------------------------------------------------------------
\* The header pattern  ^: (\d{10,}):\d+;(.+)
\* ------------------------------------------------------------------------

IsDigit(b) == b >= 48 /\ b <= 57

\* The first position at or after i that holds no digit.
RECURSIVE DigitRunEnd(_, _)
DigitRunEnd(s, i) ==
    IF i <= Len(s) /\ IsDigit(s[i]) THEN DigitRunEnd(s, i + 1) ELSE i

\* The first position at or after i that "." does not match (a newline).
RECURSIVE DotRunEnd(_, _)
DotRunEnd(s, i) ==
    IF i <= Len(s) /\ s[i] # 10 THEN DotRunEnd(s, i + 1) ELSE i

\* The fewest digits the timestamp group takes: \d{10,}
MinTimestampDigits == 10

\* FindStringSubmatch under the pattern  ^: (\d{10,}):\d*;(.+)
FindStringSubmatchAnySecondary(line) ==
    LET a == DigitRunEnd(line, 3)
        b == DigitRunEnd(line, a + 1)
        c == DotRunEnd(line, b + 1)
    IN  IF /\ Len(line) >= 2
           /\ line[1] = 58
           /\ line[2] = 32
           /\ a - 3 >= MinTimestampDigits
           /\ a <= Len(line)
           /\ line[a] = 58
           /\ b <= Len(line)
           /\ line[b] = 59
           /\ c - (b + 1) >= 1
        THEN <<SubSeq(line, 1, c - 1), SubSeq(line, 3, a - 1), SubSeq(line, b + 1, c - 1)>>
        ELSE <<>>

\* re.FindStringSubmatch(line): <<>> when the line does not match, else the
\* match, the digits of group 1 and the text of group 2.
FindStringSubmatch(line) ==
    LET a == DigitRunEnd(line, 3)
        b == DigitRunEnd(line, a + 1)
        c == DotRunEnd(line, b + 1)
    IN  IF /\ Len(line) >= 2
           /\ line[1] = 58
           /\ line[2] = 32
           /\ a - 3 >= MinTimestampDigits
           /\ a <= Len(line)
           /\ line[a] = 58
           /\ b - (a + 1) >= 1
           /\ b <= Len(line)
           /\ line[b] = 59
           /\ c - (b + 1) >= 1
        THEN <<SubSeq(line, 1, c - 1), SubSeq(line, 3, a - 1), SubSeq(line, b + 1, c - 1)>>
        ELSE <<>>

\* ------------------------------------------------------------------------
\* The lines a history file is made of here.
\* ------------------------------------------------------------------------

\* ": 1700000000:0;ls -la"
HdrLs ==
    <<58, 32, 49, 55, 48, 48, 48, 48, 48, 48, 48, 48, 58, 48, 59, 108, 115, 32, 45, 108, 97>>

\* ": 1700000100:0;git commit -m 'fix \"   (ends in a backslash)
HdrGit ==
    <<58, 32, 49, 55, 48, 48, 48, 48, 48, 49, 48, 48, 58, 48, 59, 103, 105, 116, 32, 99, 111, 109,
      109, 105, 116, 32, 45, 109, 32, 39, 102, 105, 120, 32, 92>>

\* ": 1700000200:0;echo hello"
HdrEcho ==
    <<58, 32, 49, 55, 48, 48, 48, 48, 48, 50, 48, 48, 58, 48, 59, 101, 99, 104, 111, 32, 104, 101,
      108, 108, 111>>

\* ": 9223372036854775807:15;\"   (the largest int64; the command is one backslash)
HdrBackslash ==
    <<58, 32, 57, 50, 50, 51, 51, 55, 50, 48, 51, 54, 56, 53, 52, 55, 55, 53, 56, 48, 55, 58, 49,
      53, 59, 92>>

\* ": 0000000001:0;  "   (leading zeros; the command is two spaces)
HdrBlank ==
    <<58, 32, 48, 48, 48, 48, 48, 48, 48, 48, 48, 49, 58, 48, 59, 32, 32>>

\* ": 9223372036854775808:0; a" FF FE C3 A9 C3 " "
\* (the largest int64 plus one; an invalid run, a valid two-byte rune, a
\* truncated rune, white space at both ends)
HdrBad ==
    <<58, 32, 57, 50, 50, 51, 51, 55, 50, 48, 51, 54, 56, 53, 52, 55, 55, 53, 56, 48, 56, 58, 48,
      59, 32, 97, 255, 254, 195, 169, 195, 32>>

\* "bug'"
ContBug == <<98, 117, 103, 39>>

\* "world"
ContWorld == <<119, 111, 114, 108, 100>>

\* ""
ContEmpty == <<>>

\* A9 "x\"   (a stray continuation byte; ends in a backslash)
ContChain == <<169, 120, 92>>

\* ": 170000000:0;ls"   (nine digits: no header)
NineDigits ==
    <<58, 32, 49, 55, 48, 48, 48, 48, 48, 48, 48, 58, 48, 59, 108, 115>>

HeaderPool == {HdrLs, HdrGit, HdrEcho, HdrBackslash, HdrBlank, HdrBad}

OtherPool == {ContBug, ContWorld, ContEmpty, ContChain, NineDigits}

LinePool == HeaderPool \cup OtherPool

Limits == (-1)..MaxLimit

\* ------------------------------------------------------------------------
\* State.
\* ------------------------------------------------------------------------

VARIABLES
    pc,                \* where ReadHistory is: "start", "scan", "parsed", "done"
    lines,             \* the lines scanner.Scan() has delivered so far, as read
    currentCommand,    \* the strings.Builder of parseHistory
    currentTimestamp,  \* the timestamp of the record being built
    allEntries,        \* the records parseHistory has appended
    scanErr,           \* scanner.Err(): "nil", or "read" once a read has failed
    parsed,            \* what parseHistory returned
    fileOpen,          \* the history file is open
    limit,             \* the limit handed to applyLimitFilter
    ret                \* what ReadHistory returned

VARIABLES
    env,               \* the command line, GOOGLE_API_KEY and the history file of one run
    cpc,               \* where runFind / runSuggestCore is; "idle" when neither runs
    statted,           \* os.Stat has been called on the history file
    reader,            \* a ZshHistoryReader has been created
    historyEntries,    \* the local historyEntries of runFind / runSuggestCore
    llmClient,         \* the GeminiClient: "none", "open" or "closed"
    closes,            \* the number of calls of llmClient.Close()
    apiCalls,          \* the number of calls of model.GenerateContent
    prompt,            \* the prompt built by buildFindPrompt / buildSuggestPrompt
    out                \* what runFind / runSuggestCore returned

cliVars ==
    <<env, cpc, statted, reader, historyEntries, llmClient, closes, apiCalls, prompt, out>>

vars ==
    <<pc, lines, currentCommand, currentTimestamp, allEntries, scanErr, parsed, fileOpen, limit,
      ret, env, cpc, statted, reader, historyEntries, llmClient, closes, apiCalls, prompt, out>>

\* HistoryEntry{Timestamp, Command}
HistoryEntry(ts, cmd) == [Timestamp |-> ts, Command |-> cmd]

\* A (entries, error) pair; no call has returned yet when err is "none".
Returned(entries, err) == [entries |-> entries, err |-> err]

NotReturned == Returned(<<>>, "none")

\* A (result, error) pair of runFind / runSuggestCore; err is "none" before
\* the return.
Output(result, err) == [result |-> result, err |-> err]

NoOutput == Output("", "none")

\* A prompt: the template it was built from, the records written into its
\* history context, and the text of that context.
Prompt(template, entries, context) ==
    [template |-> template, entries |-> entries, context |-> context]

\* The empty string as a prompt.
EmptyPrompt == Prompt("", <<>>, <<>>)

\* ReadHistory called on its own, with no command running.
NoEnvironment ==
    [command |-> "", limit |-> 0, noHistoryContext |-> FALSE, apiKey |-> "", file |-> <<>>,
     fileState |-> "ok"]

CliIdle ==
    /\ env = NoEnvironment
    /\ cpc = "idle"
    /\ statted = FALSE
    /\ reader = FALSE
    /\ historyEntries = <<>>
    /\ llmClient = "none"
    /\ closes = 0
    /\ apiCalls = 0
    /\ prompt = EmptyPrompt
    /\ out = NoOutput

Init ==
    /\ pc = "start"
    /\ lines = <<>>
    /\ currentCommand = <<>>
    /\ currentTimestamp = ZeroInt64
    /\ allEntries = <<>>
    /\ scanErr = "nil"
    /\ parsed = NotReturned
    /\ fileOpen = FALSE
    /\ limit = 0
    /\ ret = NotReturned
    /\ CliIdle

\* ------------------------------------------------------------------------
\* ReadHistory: opening the file.
\* ------------------------------------------------------------------------

\* os.Open succeeds: parseHistory starts with its locals at their zero values.
OpenFile ==
    /\ pc = "start"
    /\ pc' = "scan"
    /\ fileOpen' = TRUE
    /\ UNCHANGED cliVars
    /\ UNCHANGED <<lines, currentCommand, currentTimestamp, allEntries, scanErr, parsed, limit,
                   ret>>

\* OpenFileFails going on to parseHistory without a file.
OpenFileFailsThenParses ==
    /\ pc = "start"
    /\ pc' = "scan"
    /\ UNCHANGED cliVars
    /\ UNCHANGED <<lines, currentCommand, currentTimestamp, allEntries, scanErr, parsed,
                   fileOpen, limit, ret>>

\* os.Open fails: ReadHistory returns nil and the error.
OpenFileFails ==
    /\ pc = "start"
    /\ pc' = "done"
    /\ ret' = Returned(<<>>, "open")
    /\ UNCHANGED cliVars
    /\ UNCHANGED <<lines, currentCommand, currentTimestamp, allEntries, scanErr, parsed,
                   fileOpen, limit>>

\* ------------------------------------------------------------------------
\* parseHistory.
\* ------------------------------------------------------------------------

\* ensureValidUTF8 handing the bytes on as they are.
ensureValidUTF8Skipped(lineBytes) == lineBytes

\* ensureValidUTF8
ensureValidUTF8(lineBytes) ==
    IF Valid(lineBytes) THEN lineBytes ELSE ToValidUTF8(lineBytes)

\* FinishedEntry without the TrimSpace.
FinishedEntryUntrimmed(ts, cmd) == HistoryEntry(ts, ToValidUTF8(cmd))

\* The record a non-empty builder is turned into.
FinishedEntry(ts, cmd) == HistoryEntry(ts, ToValidUTF8(TrimSpace(cmd)))

\* FinalizePrevious putting the record in front of the others.
FinalizePreviousInFront(entries, ts, cmd) ==
    IF Len(cmd) > 0 THEN <<FinishedEntry(ts, cmd)>> \o entries ELSE entries

\* FinalizePrevious writing the record over the last one.
FinalizePreviousOverwrites(entries, ts, cmd) ==
    IF Len(cmd) > 0
    THEN IF entries = <<>>
         THEN <<FinishedEntry(ts, cmd)>>
         ELSE [entries EXCEPT ![Len(entries)] = FinishedEntry(ts, cmd)]
    ELSE entries

\* "Finalize the previous command if one was being built"
FinalizePrevious(entries, ts, cmd) ==
    IF Len(cmd) > 0 THEN Append(entries, FinishedEntry(ts, cmd)) ELSE entries

\* FinalizeLast leaving the white space around the last command.
FinalizeLastUntrimmed(entries, ts, cmd) ==
    IF Len(cmd) > 0 THEN Append(entries, HistoryEntry(ts, ToValidUTF8(cmd))) ELSE entries

\* "Add the very last command entry if it exists"
FinalizeLast(entries, ts, cmd) ==
    IF Len(cmd) > 0 THEN Append(entries, FinishedEntry(ts, cmd)) ELSE entries

\* "Start the new command": the timestamp and the builder after a header.
StartTimestamp(match) == ParseInt(match[2])

StartCommand(match) == ToValidUTF8(match[3])

\* JoinContinuation leaving the trailing backslash in place.
JoinKeepsBackslash(currentStr, nextLineStr) ==
    IF HasSuffixBackslash(currentStr)
    THEN currentStr \o nextLineStr
    ELSE currentStr \o <<10>> \o nextLineStr

\* JoinContinuation without the test for a trailing backslash.
JoinAlwaysNewline(currentStr, nextLineStr) ==
    currentStr \o <<10>> \o nextLineStr

\* JoinContinuation putting a space where the newline belongs.
JoinWithSpace(currentStr, nextLineStr) ==
    IF HasSuffixBackslash(currentStr)
    THEN SubSeq(currentStr, 1, Len(currentStr) - 1) \o nextLineStr
    ELSE currentStr \o <<32>> \o nextLineStr

\* The builder after a continuation line: the trailing backslash replaced by
\* the line, or a newline and the line added.
JoinContinuation(currentStr, nextLineStr) ==
    IF HasSuffixBackslash(currentStr)
    THEN SubSeq(currentStr, 1, Len(currentStr) - 1) \o nextLineStr
    ELSE currentStr \o <<10>> \o nextLineStr

\* One turn of the loop, the line matching the header pattern.
ScanHeaderLine(raw) ==
    LET line  == ensureValidUTF8(raw)
        match == FindStringSubmatch(line)
    IN  /\ pc = "scan"
        /\ Len(lines) < MaxLines
        /\ Len(match) = 3
        /\ lines' = Append(lines, raw)
        /\ allEntries' = FinalizePrevious(allEntries, currentTimestamp, currentCommand)
        /\ currentTimestamp' = StartTimestamp(match)
        /\ currentCommand' = StartCommand(match)
        /\ UNCHANGED cliVars
        /\ UNCHANGED <<pc, scanErr, parsed, fileOpen, limit, ret>>

\* One turn of the loop, the line not matching and a command being built.
ScanContinuationLine(raw) ==
    LET line  == ensureValidUTF8(raw)
        match == FindStringSubmatch(line)
    IN  /\ pc = "scan"
        /\ Len(lines) < MaxLines
        /\ Len(match) # 3
        /\ Len(currentCommand) > 0
        /\ lines' = Append(lines, raw)
        /\ currentCommand' = JoinContinuation(currentCommand, line)
        /\ UNCHANGED cliVars
        /\ UNCHANGED <<pc, currentTimestamp, allEntries, scanErr, parsed, fileOpen, limit, ret>>

\* ScanOrphanLine taking the line as the start of a command.
ScanOrphanLineKept(raw) ==
    LET line  == ensureValidUTF8(raw)
        match == FindStringSubmatch(line)
    IN  /\ pc = "scan"
        /\ Len(lines) < MaxLines
        /\ Len(match) # 3
        /\ Len(currentCommand) = 0
        /\ lines' = Append(lines, raw)
        /\ currentCommand' = line
        /\ UNCHANGED cliVars
        /\ UNCHANGED <<pc, currentTimestamp, allEntries, scanErr, parsed, fileOpen, limit, ret>>

\* One turn of the loop, the line not matching and no command being built.
ScanOrphanLine(raw) ==
    LET line  == ensureValidUTF8(raw)
        match == FindStringSubmatch(line)
    IN  /\ pc = "scan"
        /\ Len(lines) < MaxLines
        /\ Len(match) # 3
        /\ Len(currentCommand) = 0
        /\ lines' = Append(lines, raw)
        /\ UNCHANGED cliVars
        /\ UNCHANGED <<pc, currentCommand, currentTimestamp, allEntries, scanErr, parsed,
                       fileOpen, limit, ret>>

\* parseHistoryReturn handing out the records along with the error.
parseHistoryReturnsPartial(entries, err) == Returned(entries, err)

\* "Check for scanner errors after the loop finishes": what parseHistory
\* returns, given the records and scanner.Err().
parseHistoryReturn(entries, err) ==
    IF err # "nil" THEN Returned(<<>>, err) ELSE Returned(entries, "nil")

\* After the loop: the last command is added, then the scanner's error is
\* looked at.
AfterLoop(err) ==
    /\ pc' = "parsed"
    /\ scanErr' = err
    /\ allEntries' = FinalizeLast(allEntries, currentTimestamp, currentCommand)
    /\ parsed' = parseHistoryReturn(allEntries', err)
    /\ UNCHANGED cliVars
    /\ UNCHANGED <<lines, currentCommand, currentTimestamp, fileOpen, limit, ret>>

\* scanner.Scan() returns false at the end of the stream; scanner.Err() is nil.
ScanEnd ==
    /\ pc = "scan"
    /\ AfterLoop("nil")

\* scanner.Scan() returns false because a read failed; scanner.Err() is the
\* error of that read.
ScanFails ==
    /\ pc = "scan"
    /\ AfterLoop("read")

\* parseHistory over a whole stream: the locals at the start, one turn of
\* the loop, the loop over a range of lines and over the lines from the
\* i-th on, and the return.
LoopStart == [entries |-> <<>>, ts |-> ZeroInt64, cmd |-> <<>>]

LoopTurn(st, raw) ==
    LET line  == ensureValidUTF8(raw)
        match == FindStringSubmatch(line)
    IN  IF Len(match) = 3
        THEN [entries |-> FinalizePrevious(st.entries, st.ts, st.cmd),
              ts      |-> StartTimestamp(match),
              cmd     |-> StartCommand(match)]
        ELSE IF Len(st.cmd) > 0
             THEN [st EXCEPT !.cmd = JoinContinuation(st.cmd, line)]
             ELSE st

\* The element of a set of one element.
The(S) == CHOOSE x \in S : TRUE

\* The turns of the loop for the lines i..j, in their order: those of the
\* first half of the range, then those of the second.
RECURSIVE LoopOver(_, _, _, _)
LoopOver(st, ls, i, j) ==
    IF i > j THEN st
    ELSE IF i = j THEN LoopTurn(st, ls[i])
    ELSE The({LoopOver(half, ls, (i + j) \div 2 + 1, j) :
                 half \in {LoopOver(st, ls, i, (i + j) \div 2)}})

LoopFrom(st, ls, i) == LoopOver(st, ls, i, Len(ls))

parseHistoryOf(ls, err) ==
    LET st == LoopFrom(LoopStart, ls, 1)
    IN  parseHistoryReturn(FinalizeLast(st.entries, st.ts, st.cmd), err)

\* ------------------------------------------------------------------------
\* ReadHistory: after parseHistory.
\* ------------------------------------------------------------------------

\* applyLimitFilter keeping the oldest records instead of the latest.
applyLimitKeepsFirst(entries, n) ==
    IF n <= 0 \/ Len(entries) <= n THEN entries ELSE SubSeq(entries, 1, n)

\* applyLimitFilter(logger, entries, limit)
applyLimitFilter(entries, n) ==
    IF n <= 0 \/ Len(entries) <= n
    THEN entries
    ELSE SubSeq(entries, Len(entries) - n + 1, Len(entries))

\* parseHistory returned an error: ReadHistory returns nil and that error;
\* the deferred Close runs.
ReturnParseError ==
    /\ pc = "parsed"
    /\ parsed.err # "nil"
    /\ pc' = "done"
    /\ ret' = Returned(<<>>, parsed.err)
    /\ fileOpen' = FALSE
    /\ UNCHANGED cliVars
    /\ UNCHANGED <<lines, currentCommand, currentTimestamp, allEntries, scanErr, parsed, limit>>

\* parseHistory returned records: ReadHistory returns them filtered by the
\* limit it was called with; the deferred Close runs.
ReturnFiltered(n) ==
    /\ pc = "parsed"
    /\ parsed.err = "nil"
    /\ pc' = "done"
    /\ limit' = n
    /\ ret' = Returned(applyLimitFilter(parsed.entries, n), "nil")
    /\ fileOpen' = FALSE
    /\ UNCHANGED cliVars
    /\ UNCHANGED <<lines, currentCommand, currentTimestamp, allEntries, scanErr, parsed>>

Next ==
    \/ OpenFile
    \/ OpenFileFails
    \/ \E raw \in LinePool : ScanHeaderLine(raw)
    \/ \E raw \in LinePool : ScanContinuationLine(raw)
    \/ \E raw \in LinePool : ScanOrphanLine(raw)
    \/ ScanEnd
    \/ ScanFails
    \/ ReturnParseError
    \/ \E n \in Limits : ReturnFiltered(n)

Spec == Init /\ [][Next]_vars

TypeOK ==
    /\ pc \in {"start", "scan", "parsed", "done"}
    /\ Len(lines) <= MaxLines
    /\ fileOpen \in BOOLEAN
    /\ scanErr \in {"nil", "read"}
    /\ limit \in Limits

\* ------------------------------------------------------------------------
\* The commands find and suggest: runFind and runSuggestCore.
\* ------------------------------------------------------------------------

findHistoryContextLimit == 150

suggestHistoryContextLimit == 50

defaultFindHistoryLimit == 300

defaultSuggestHistoryContextLimit == 100

\* The longest history file of the runs.
MaxFileLines == 151

\* The three decimal digits of k.
ThreeDigits(k) == <<48 + (k \div 100), 48 + ((k \div 10) % 10), 48 + (k % 10)>>

\* ": 1700000kkk:0;ckkk"
NumberedLine(k) ==
    <<58, 32, 49, 55, 48, 48, 48, 48, 48>> \o ThreeDigits(k) \o <<58, 48, 59, 99>> \o ThreeDigits(k)

\* A history file of n header lines, all different.
NumberedFile(n) == [k \in 1..n |-> NumberedLine(k)]

FileLengths ==
    {0, 1, 2, suggestHistoryContextLimit + 1} \cup (findHistoryContextLimit - 1)..MaxFileLines

\* The numbered files, a file with a two-line command, a file without a header.
Files ==
    {NumberedFile(n) : n \in FileLengths} \cup {<<HdrEcho, ContWorld, HdrLs>>, <<ContWorld>>}

\* The values of --limit.
FlagLimits ==
    {-1, 0, 1, 2, suggestHistoryContextLimit, defaultSuggestHistoryContextLimit,
     findHistoryContextLimit, findHistoryContextLimit + 1, defaultFindHistoryLimit}

\* The history file is there and readable ("ok"), is not there ("missing"),
\* cannot be opened ("unreadable"), opens and then fails a read ("readfails");
\* or user.Current() fails ("nouser").
FileStates == {"ok", "missing", "unreadable", "readfails", "nouser"}

Environments ==
    {e \in [command : {"find", "suggest"}, limit : FlagLimits, noHistoryContext : BOOLEAN,
            apiKey : {"", "key"}, file : Files, fileState : FileStates] :
        /\ e.command = "find" => ~e.noHistoryContext
        /\ e.fileState \in {"missing", "unreadable", "nouser"} => e.file = <<>>}

\* runFind or runSuggestCore is entered.
CliInit ==
    /\ pc = "start"
    /\ lines = <<>>
    /\ currentCommand = <<>>
    /\ currentTimestamp = ZeroInt64
    /\ allEntries = <<>>
    /\ scanErr = "nil"
    /\ parsed = NotReturned
    /\ fileOpen = FALSE
    /\ limit = 0
    /\ ret = NotReturned
    /\ env \in Environments
    /\ cpc = "config"
    /\ statted = FALSE
    /\ reader = FALSE
    /\ historyEntries = <<>>
    /\ llmClient = "none"
    /\ closes = 0
    /\ apiCalls = 0
    /\ prompt = EmptyPrompt
    /\ out = NoOutput

\* LoadConfig taking an empty GOOGLE_API_KEY as a key.
LoadConfigAnyKey ==
    /\ cpc = "config"
    /\ cpc' = "reader"
    /\ UNCHANGED <<pc, lines, currentCommand, currentTimestamp, allEntries, scanErr, parsed,
                   fileOpen, limit, ret>>
    /\ UNCHANGED <<env, statted, reader, historyEntries, llmClient, closes, apiCalls, prompt, out>>

\* LoadConfig: GOOGLE_API_KEY is set.
LoadConfig ==
    /\ cpc = "config"
    /\ env.apiKey # ""
    /\ cpc' = "reader"
    /\ UNCHANGED <<pc, lines, currentCommand, currentTimestamp, allEntries, scanErr, parsed,
                   fileOpen, limit, ret>>
    /\ UNCHANGED <<env, statted, reader, historyEntries, llmClient, closes, apiCalls, prompt, out>>

\* LoadConfig: GOOGLE_API_KEY is empty or unset; the command returns the error.
LoadConfigFails ==
    /\ cpc = "config"
    /\ env.apiKey = ""
    /\ cpc' = "returned"
    /\ out' = Output("", "config")
    /\ UNCHANGED <<pc, lines, currentCommand, currentTimestamp, allEntries, scanErr, parsed,
                   fileOpen, limit, ret>>
    /\ UNCHANGED <<env, statted, reader, historyEntries, llmClient, closes, apiCalls, prompt>>

\* runFind reads the history always, runSuggestCore "if !noHistoryContext".
ReadsHistory == env.command = "find" \/ ~env.noHistoryContext

\* SkipHistory creating the history reader all the same.
SkipHistoryIgnored ==
    /\ cpc = "reader"
    /\ ~ReadsHistory
    /\ statted' = TRUE
    /\ reader' = TRUE
    /\ cpc' = "read"
    /\ UNCHANGED <<pc, lines, currentCommand, currentTimestamp, allEntries, scanErr, parsed,
                   fileOpen, limit, ret>>
    /\ UNCHANGED <<env, historyEntries, llmClient, closes, apiCalls, prompt, out>>

\* runSuggestCore with --no-history-context: historyEntries stays nil.
SkipHistory ==
    /\ cpc = "reader"
    /\ ~ReadsHistory
    /\ cpc' = "llm"
    /\ UNCHANGED <<pc, lines, currentCommand, currentTimestamp, allEntries, scanErr, parsed,
                   fileOpen, limit, ret>>
    /\ UNCHANGED <<env, statted, reader, historyEntries, llmClient, closes, apiCalls, prompt, out>>

\* NewZshHistoryReader: the path is found and os.Stat does not say that the
\* file does not exist.
NewZshHistoryReader ==
    /\ cpc = "reader"
    /\ ReadsHistory
    /\ env.fileState \notin {"nouser", "missing"}
    /\ statted' = TRUE
    /\ reader' = TRUE
    /\ cpc' = "read"
    /\ UNCHANGED <<pc, lines, currentCommand, currentTimestamp, allEntries, scanErr, parsed,
                   fileOpen, limit, ret>>
    /\ UNCHANGED <<env, historyEntries, llmClient, closes, apiCalls, prompt, out>>

\* NewZshHistoryReader: user.Current() fails, or the file does not exist;
\* the command returns the error.
NewZshHistoryReaderFails ==
    /\ cpc = "reader"
    /\ ReadsHistory
    /\ env.fileState \in {"nouser", "missing"}
    /\ statted' = (env.fileState = "missing")
    /\ cpc' = "returned"
    /\ out' = Output("", "reader")
    /\ UNCHANGED <<pc, lines, currentCommand, currentTimestamp, allEntries, scanErr, parsed,
                   fileOpen, limit, ret>>
    /\ UNCHANGED <<env, reader, historyEntries, llmClient, closes, apiCalls, prompt>>

\* historyReader.ReadHistory(limit): os.Open succeeds.
OpenHistoryFile ==
    /\ cpc = "read"
    /\ env.fileState \in {"ok", "readfails"}
    /\ OpenFile

\* historyReader.ReadHistory(limit): os.Open fails.
OpenHistoryFileFails ==
    /\ cpc = "read"
    /\ env.fileState = "unreadable"
    /\ OpenFileFails

\* parseHistory over the file: all its lines, or, when a read fails, the k
\* lines delivered before the failure.
ParseHistoryFile(k) ==
    /\ cpc = "read"
    /\ pc = "scan"
    /\ IF env.fileState = "readfails" THEN k <= Len(env.file) ELSE k = Len(env.file)
    /\ \E ls \in {SubSeq(env.file, 1, k)},
          err \in {IF env.fileState = "readfails" THEN "read" ELSE "nil"} :
        \E st \in {LoopFrom(LoopStart, ls, 1)} :
            \E entries \in {FinalizeLast(st.entries, st.ts, st.cmd)} :
                /\ lines' = ls
                /\ currentCommand' = st.cmd
                /\ currentTimestamp' = st.ts
                /\ allEntries' = entries
                /\ scanErr' = err
                /\ parsed' = parseHistoryReturn(entries, err)
    /\ pc' = "parsed"
    /\ UNCHANGED <<fileOpen, limit, ret>>
    /\ UNCHANGED cliVars

\* The numbers of lines after which the read of a failing file fails.
FailurePoints == {0, Len(env.file) \div 2, Len(env.file)}

\* ReadHistory returns the error of parseHistory.
ReturnHistoryError ==
    /\ cpc = "read"
    /\ ReturnParseError

\* ReadHistory returns the records, filtered by --limit.
ReturnHistory ==
    /\ cpc = "read"
    /\ ReturnFiltered(env.limit)

\* ReadHistory has returned: the command returns its error, or goes on with
\* the records.
HistoryRead ==
    /\ cpc = "read"
    /\ pc = "done"
    /\ IF ret.err = "nil"
       THEN /\ cpc' = "llm"
            /\ historyEntries' = ret.entries
            /\ UNCHANGED out
       ELSE /\ cpc' = "returned"
            /\ out' = Output("", "history")
            /\ UNCHANGED historyEntries
    /\ UNCHANGED <<pc, lines, currentCommand, currentTimestamp, allEntries, scanErr, parsed,
                   fileOpen, limit, ret>>
    /\ UNCHANGED <<env, statted, reader, llmClient, closes, apiCalls, prompt>>

\* NewGeminiClient: the key is not empty and genai.NewClient succeeds.
NewGeminiClient ==
    /\ cpc = "llm"
    /\ env.apiKey # ""
    /\ llmClient' = "open"
    /\ cpc' = "call"
    /\ UNCHANGED <<pc, lines, currentCommand, currentTimestamp, allEntries, scanErr, parsed,
                   fileOpen, limit, ret>>
    /\ UNCHANGED <<env, statted, reader, historyEntries, closes, apiCalls, prompt, out>>

\* NewGeminiClient: the key is empty or genai.NewClient fails; the command
\* returns the error, no Close is deferred.
NewGeminiClientFails ==
    /\ cpc = "llm"
    /\ cpc' = "returned"
    /\ out' = Output("", "llmclient")
    /\ UNCHANGED <<pc, lines, currentCommand, currentTimestamp, allEntries, scanErr, parsed,
                   fileOpen, limit, ret>>
    /\ UNCHANGED <<env, statted, reader, historyEntries, llmClient, closes, apiCalls, prompt>>

\* "Shell History Entries Provided"
FindContextHeader ==
    <<83, 104, 101, 108, 108, 32, 72, 105, 115, 116, 111, 114, 121, 32, 69, 110, 116, 114, 105,
      101, 115, 32, 80, 114, 111, 118, 105, 100, 101, 100>>

\* "Recent History Context (Optional)"
SuggestContextHeader ==
    <<82, 101, 99, 101, 110, 116, 32, 72, 105, 115, 116, 111, 114, 121, 32, 67, 111, 110, 116,
      101, 120, 116, 32, 40, 79, 112, 116, 105, 111, 110, 97, 108, 41>>

\* "No specific user history context provided.\n\n"
NoContextText ==
    <<78, 111, 32, 115, 112, 101, 99, 105, 102, 105, 99, 32, 117, 115, 101, 114, 32, 104, 105,
      115, 116, 111, 114, 121, 32, 99, 111, 110, 116, 101, 120, 116, 32, 112, 114, 111, 118,
      105, 100, 101, 100, 46, 10, 10>>

\* strings.Repeat("-", n)
Dashes(n) == [i \in 1..n |-> 45]

\* startIdx of formatHistoryContext
StartIdx(historyContext, maxEntries) ==
    IF maxEntries > 0 /\ Len(historyContext) > maxEntries
    THEN Len(historyContext) - maxEntries
    ELSE 0

\* What the loop of formatHistoryContext writes for the indices i..j-1
\* (counted from 0): each command and a newline, in the order of the indices.
RECURSIVE WriteCommands(_, _, _)
WriteCommands(historyContext, i, j) ==
    IF i >= j THEN <<>>
    ELSE IF i + 1 = j THEN historyContext[i + 1].Command \o <<10>>
    ELSE WriteCommands(historyContext, i, (i + j) \div 2)
             \o WriteCommands(historyContext, (i + j) \div 2, j)

formatHistoryContext(header, historyContext, maxEntries) ==
    IF Len(historyContext) = 0
    THEN NoContextText
    ELSE header \o <<58, 10>> \o Dashes(Len(header) + 1) \o <<10>>
             \o WriteCommands(historyContext, StartIdx(historyContext, maxEntries),
                              Len(historyContext))
             \o Dashes(Len(header) + 1) \o <<10, 10>>

\* The records the loop of formatHistoryContext writes.
WrittenEntries(historyContext, maxEntries) ==
    SubSeq(historyContext, StartIdx(historyContext, maxEntries) + 1, Len(historyContext))

\* buildFindPrompt without the test for an empty history.
buildFindPromptAlways(historyContext) ==
    Prompt("find", WrittenEntries(historyContext, findHistoryContextLimit),
           formatHistoryContext(FindContextHeader, historyContext, findHistoryContextLimit))

\* buildFindPrompt
buildFindPrompt(historyContext) ==
    IF Len(historyContext) = 0
    THEN EmptyPrompt
    ELSE Prompt("find", WrittenEntries(historyContext, findHistoryContextLimit),
                formatHistoryContext(FindContextHeader, historyContext, findHistoryContextLimit))

\* buildSuggestPrompt
buildSuggestPrompt(historyContext) ==
    Prompt("suggest", WrittenEntries(historyContext, suggestHistoryContextLimit),
           formatHistoryContext(SuggestContextHeader, historyContext,
                                suggestHistoryContextLimit))

NoRelevantText == "(No relevant commands found or AI response was empty)"

NoSuggestionText == "(AI could not suggest a command for this task or the response was empty)"

\* What generateGeminiContent can return: a text, or an error.
ApiOutcomes ==
    {<<"", "api">>, <<"", "safety">>, <<"", "nil">>, <<"No relevant commands found.", "nil">>,
     <<"Cannot suggest a command for this task.", "nil">>, <<"ls -la", "nil">>}

\* FindHistoryEntries after the prompt is built, and runFind's wrapping of
\* its error.
FindResult(text, err) ==
    IF err # "nil" THEN Output("", "llm")
    ELSE IF text = "" \/ text = "No relevant commands found."
         THEN Output(NoRelevantText, "nil")
         ELSE Output(text, "nil")

\* SuggestCommands after the prompt is built, and runSuggestCore's wrapping
\* of its error.
SuggestResult(text, err) ==
    IF err # "nil" THEN Output("", "llm")
    ELSE IF text = "" \/ text = "Cannot suggest a command for this task."
         THEN Output(NoSuggestionText, "nil")
         ELSE Output(text, "nil")

\* llmClient.FindHistoryEntries(query, historyEntries)
FindHistoryEntries(text, err) ==
    /\ cpc = "call"
    /\ env.command = "find"
    /\ \E p \in {buildFindPrompt(historyEntries)} :
        /\ prompt' = p
        /\ IF p = EmptyPrompt
           THEN /\ <<text, err>> = <<"", "nil">>
                /\ apiCalls' = apiCalls
                /\ out' = Output(NoRelevantText, "nil")
           ELSE /\ apiCalls' = apiCalls + 1
                /\ out' = FindResult(text, err)
    /\ cpc' = "defer"
    /\ UNCHANGED <<pc, lines, currentCommand, currentTimestamp, allEntries, scanErr, parsed,
                   fileOpen, limit, ret>>
    /\ UNCHANGED <<env, statted, reader, historyEntries, llmClient, closes>>

\* llmClient.SuggestCommands(query, historyEntries)
SuggestCommands(text, err) ==
    /\ cpc = "call"
    /\ env.command = "suggest"
    /\ prompt' = buildSuggestPrompt(historyEntries)
    /\ apiCalls' = apiCalls + 1
    /\ out' = SuggestResult(text, err)
    /\ cpc' = "defer"
    /\ UNCHANGED <<pc, lines, currentCommand, currentTimestamp, allEntries, scanErr, parsed,
                   fileOpen, limit, ret>>
    /\ UNCHANGED <<env, statted, reader, historyEntries, llmClient, closes>>

\* CloseClient closing the client only when the call has succeeded.
CloseClientOnSuccessOnly ==
    /\ cpc = "defer"
    /\ llmClient' = IF out.err = "nil" THEN "closed" ELSE llmClient
    /\ closes' = IF out.err = "nil" THEN closes + 1 ELSE closes
    /\ cpc' = "returned"
    /\ UNCHANGED <<pc, lines, currentCommand, currentTimestamp, allEntries, scanErr, parsed,
                   fileOpen, limit, ret>>
    /\ UNCHANGED <<env, statted, reader, historyEntries, apiCalls, prompt, out>>

\* The deferred llmClient.Close() runs and the command returns.
CloseClient ==
    /\ cpc = "defer"
    /\ llmClient' = "closed"
    /\ closes' = closes + 1
    /\ cpc' = "returned"
    /\ UNCHANGED <<pc, lines, currentCommand, currentTimestamp, allEntries, scanErr, parsed,
                   fileOpen, limit, ret>>
    /\ UNCHANGED <<env, statted, reader, historyEntries, apiCalls, prompt, out>>

CliNext ==
    \/ LoadConfig
    \/ LoadConfigFails
    \/ SkipHistory
    \/ NewZshHistoryReader
    \/ NewZshHistoryReaderFails
    \/ OpenHistoryFile
    \/ OpenHistoryFileFails
    \/ \E k \in FailurePoints : ParseHistoryFile(k)
    \/ ReturnHistoryError
    \/ ReturnHistory
    \/ HistoryRead
    \/ NewGeminiClient
    \/ NewGeminiClientFails
    \/ \E o \in ApiOutcomes : FindHistoryEntries(o[1], o[2])
    \/ \E o \in ApiOutcomes : SuggestCommands(o[1], o[2])
    \/ CloseClient

CliSpec == CliInit /\ [][CliNext]_vars

\* ------------------------------------------------------------------------
\* Vocabulary of the properties.
\* ------------------------------------------------------------------------

\* A line has the shape of a header: ": ", ten or more digits, ":", one or
\* more digits, ";", then a non-empty rest.
HeaderShape(s) ==
    /\ Len(s) >= 2
    /\ s[1] = 58
    /\ s[2] = 32
    /\ \E a \in 13..Len(s) :
        /\ s[a] = 58
        /\ \A k \in 3..(a - 1) : IsDigit(s[k])
        /\ \E b \in (a + 2)..(Len(s) - 1) :
            /\ s[b] = 59
            /\ \A k \in (a + 1)..(b - 1) : IsDigit(s[k])

\* The position of the first byte c of s at or after position i.
FirstAt(s, c, i) ==
    CHOOSE k \in i..Len(s) : s[k] = c /\ \A m \in i..(k - 1) : s[m] # c

\* The digit field and the remainder of a line of header shape.
DigitFieldOf(s) == SubSeq(s, 3, FirstAt(s, 58, 3) - 1)

RemainderOf(s) == SubSeq(s, FirstAt(s, 59, 1) + 1, Len(s))

\* The numeral of the value of a digit string: its digits from the first
\* that is not a zero (or the last digit, when all are zeros).
NumeralOf(field) ==
    LET k == CHOOSE k \in 1..Len(field) :
                /\ k = Len(field) \/ field[k] # 48
                /\ \A m \in 1..(k - 1) : field[m] = 48
    IN  [m \in 1..(Len(field) - k + 1) |-> field[k + m - 1] - 48]

\* The numeral ts is the value of the digit string field.
IsValueOf(ts, field) == ts = NumeralOf(field)

\* The value of the digit string is not above the largest int64.
FitsInt64(field) == \A ts \in {NumeralOf(field)} : NumLeq(ts, MaxInt64)

\* The line as the classifier sees it.
Sanitized(raw) == ToValidUTF8(raw)

IsHeaderLine(raw) == \E s \in {Sanitized(raw)} : HeaderShape(s)

HeaderLinesOnly(ls) == \A i \in 1..Len(ls) : IsHeaderLine(ls[i])

NoHeaderLine(ls) == \A i \in 1..Len(ls) : ~IsHeaderLine(ls[i])

\* The loop has just read one more line.
ReadsLine == pc = "scan" /\ pc' = "scan" /\ Len(lines') = Len(lines) + 1

LastLine == lines'[Len(lines')]

\* parseHistory has returned without an error.
ParsedOk == pc \in {"parsed", "done"} /\ parsed.err = "nil"

\* ------------------------------------------------------------------------
\* C1
\* ------------------------------------------------------------------------

\* C1: for a stream of header lines only, parseHistory returns one record
\* per line, in the order of the lines; record i carries the value of the
\* digit field of line i (when that value is an int64) and, as its command,
\* the remainder of line i without its leading and trailing white space.
C1_HeaderOnlyStream ==
    (ParsedOk /\ HeaderLinesOnly(lines)) =>
        /\ Len(parsed.entries) = Len(lines)
        /\ \A i \in 1..Len(lines) :
            \A line \in {Sanitized(lines[i])}, e \in {parsed.entries[i]} :
                /\ FitsInt64(DigitFieldOf(line)) => IsValueOf(e.Timestamp, DigitFieldOf(line))
                /\ e.Command = TrimSpace(RemainderOf(line))

C1_Witness ==
    /\ pc = "parsed"
    /\ parsed.err = "nil"
    /\ lines = <<HdrLs, HdrBad, HdrBlank>>
    /\ Len(parsed.entries) = 3
    /\ parsed.entries[1] = HistoryEntry(<<1, 7, 0, 0, 0, 0, 0, 0, 0, 0>>, <<108, 115, 32, 45, 108, 97>>)
    /\ parsed.entries[3] = HistoryEntry(<<1>>, <<>>)

\* ------------------------------------------------------------------------
\* C2
\* ------------------------------------------------------------------------

\* The text a chain of escaped joins builds from a first text and the lines
\* that follow it.
RECURSIVE EscapedChain(_, _)
EscapedChain(text, conts) ==
    IF conts = <<>> THEN text
    ELSE EscapedChain(SubSeq(text, 1, Len(text) - 1) \o Sanitized(Head(conts)), Tail(conts))

\* Every text on the way of the chain ends in a backslash.
RECURSIVE ChainEscapes(_, _)
ChainEscapes(text, conts) ==
    IF conts = <<>> THEN TRUE
    ELSE /\ Len(text) > 0
         /\ text[Len(text)] = 92
         /\ ChainEscapes(SubSeq(text, 1, Len(text) - 1) \o Sanitized(Head(conts)), Tail(conts))

C2_EscapedStep ==
    (/\ ReadsLine
     /\ ~IsHeaderLine(LastLine)
     /\ Len(currentCommand) > 0
     /\ currentCommand[Len(currentCommand)] = 92) =>
        LET n    == Len(currentCommand)
            line == Sanitized(LastLine)
        IN  /\ Len(currentCommand') = n - 1 + Len(line)
            /\ SubSeq(currentCommand', 1, n - 1) = SubSeq(currentCommand, 1, n - 1)
            /\ SubSeq(currentCommand', n, n - 1 + Len(line)) = line

C2_EscapedChains ==
    (/\ pc = "scan"
     /\ Len(lines) >= 2
     /\ IsHeaderLine(lines[1])
     /\ NoHeaderLine(Tail(lines))
     /\ ChainEscapes(RemainderOf(Sanitized(lines[1])), Tail(lines))) =>
        currentCommand = EscapedChain(RemainderOf(Sanitized(lines[1])), Tail(lines))

\* C2: a continuation line that arrives while the accumulated text ends in a
\* backslash replaces that one backslash: the new text is the old text
\* without it, directly followed by the line, nothing in between; and so for
\* every line of a chain of backslash-terminated lines.
C2_EscapedJoin == [][C2_EscapedStep]_vars /\ []C2_EscapedChains

\* "git commit -m 'fix " EF BF BD "xbug'"
C2_Witness ==
    /\ pc = "scan"
    /\ lines = <<HdrGit, ContChain, ContBug>>
    /\ currentCommand =
        <<103, 105, 116, 32, 99, 111, 109, 109, 105, 116, 32, 45, 109, 32, 39, 102, 105, 120, 32,
          239, 191, 189, 120, 98, 117, 103, 39>>

\* ------------------------------------------------------------------------
\* C3
\* ------------------------------------------------------------------------

\* "git commit -m 'fixbug'"
CmdGitFixbug ==
    <<103, 105, 116, 32, 99, 111, 109, 109, 105, 116, 32, 45, 109, 32, 39, 102, 105, 120, 98, 117,
      103, 39>>

\* "git commit -m 'fix bug'"
CmdGitFixSpaceBug ==
    <<103, 105, 116, 32, 99, 111, 109, 109, 105, 116, 32, 45, 109, 32, 39, 102, 105, 120, 32, 98,
      117, 103, 39>>

\* 1700000100
Ts1700000100 == <<1, 7, 0, 0, 0, 0, 0, 1, 0, 0>>

\* C3 as stated: the stream ": 1700000100:0;git commit -m 'fix \", "bug'"
\* yields the one record {1700000100, "git commit -m 'fixbug'"}.
C3_AsStated ==
    (ParsedOk /\ lines = <<HdrGit, ContBug>>) =>
        parsed.entries = <<HistoryEntry(Ts1700000100, CmdGitFixbug)>>

\* C3: the stream ": 1700000100:0;git commit -m 'fix \", "bug'" yields the
\* one record {1700000100, "git commit -m 'fix bug'"}: the backslash is
\* consumed, no newline is put in, and the space before the backslash stays.
C3_EscapedExample ==
    (ParsedOk /\ lines = <<HdrGit, ContBug>>) =>
        parsed.entries = <<HistoryEntry(Ts1700000100, CmdGitFixSpaceBug)>>

C3_Witness ==
    /\ pc = "parsed"
    /\ parsed.err = "nil"
    /\ lines = <<HdrGit, ContBug>>
    /\ Len(parsed.entries) = 1
    /\ ~(\E k \in 1..Len(parsed.entries[1].Command) :
            parsed.entries[1].Command[k] \in {10, 92})

\* ------------------------------------------------------------------------
\* C4
\* ------------------------------------------------------------------------

\* "echo hello" 0A "world"
CmdEchoHelloWorld ==
    <<101, 99, 104, 111, 32, 104, 101, 108, 108, 111, 10, 119, 111, 114, 108, 100>>

\* 1700000200
Ts1700000200 == <<1, 7, 0, 0, 0, 0, 0, 2, 0, 0>>

\* The newlines of s that have text other than white space on both sides.
InternalNewlines(s) ==
    {k \in 1..Len(s) : s[k] = 10 /\ TrimLeftFrom(s, 1) < k /\ k < TrimRightTo(s, 1, Len(s))}

Newlines(s) == {k \in 1..Len(s) : s[k] = 10}

\* A step of the loop or its end has just appended a record.
EmitsRecord == Len(allEntries') = Len(allEntries) + 1

C4_LiteralStep ==
    (/\ ReadsLine
     /\ ~IsHeaderLine(LastLine)
     /\ Len(currentCommand) > 0
     /\ currentCommand[Len(currentCommand)] # 92) =>
        \A line \in {Sanitized(LastLine)} :
            LET n == Len(currentCommand)
            IN  /\ Len(currentCommand') = n + 1 + Len(line)
                /\ SubSeq(currentCommand', 1, n) = currentCommand
                /\ currentCommand'[n + 1] = 10
                /\ SubSeq(currentCommand', n + 2, n + 1 + Len(line)) = line

C4_NewlinesKept ==
    EmitsRecord =>
        Cardinality(Newlines(allEntries'[Len(allEntries')].Command))
            = Cardinality(InternalNewlines(currentCommand))

C4_Example ==
    (ParsedOk /\ lines = <<HdrEcho, ContWorld>>) =>
        parsed.entries = <<HistoryEntry(Ts1700000200, CmdEchoHelloWorld)>>

\* C4: a continuation line that arrives while the accumulated text is not
\* empty and does not end in a backslash is added after one newline: the new
\* text is the old text, a newline, the line.  The record emitted from the
\* text has every newline of it that has text on both sides; the stream
\* ": 1700000200:0;echo hello", "world" yields the command
\* "echo hello\nworld".
C4_LiteralJoin == [][C4_LiteralStep /\ C4_NewlinesKept]_vars /\ []C4_Example

C4_Witness ==
    /\ pc = "parsed"
    /\ parsed.err = "nil"
    /\ lines = <<HdrEcho, ContWorld>>
    /\ Len(parsed.entries) = 1
    /\ parsed.entries[1].Command[11] = 10

\* ------------------------------------------------------------------------
\* C5
\* ------------------------------------------------------------------------

\* C5: of the M records parseHistory returned, ReadHistory called with limit
\* N returns the last N, in their order, when 0 < N < M, and all M, in their
\* order, when N >= M or N <= 0.
C5_WindowSelection ==
    (pc = "done" /\ ret.err = "nil") =>
        LET M == Len(parsed.entries)
            N == limit
        IN  IF 0 < N /\ N < M
            THEN /\ Len(ret.entries) = N
                 /\ \A k \in 1..N : ret.entries[k] = parsed.entries[M - N + k]
            ELSE ret.entries = parsed.entries

C5_Witness ==
    /\ pc = "done"
    /\ ret.err = "nil"
    /\ limit = 2
    /\ Len(parsed.entries) = 3
    /\ parsed.entries[1] # parsed.entries[3]
    /\ ret.entries = <<parsed.entries[2], parsed.entries[3]>>

\* ------------------------------------------------------------------------
\* C6
\* ------------------------------------------------------------------------

\* C6: once a read of the stream has failed, parseHistory returns the error
\* and no records, and so does ReadHistory, whatever had been read and
\* assembled before; no call returns an error together with records.
C6_ReadFailure ==
    /\ (scanErr = "read" /\ pc \in {"parsed", "done"}) => parsed = Returned(<<>>, "read")
    /\ (scanErr = "read" /\ pc = "done") => ret = Returned(<<>>, "read")
    /\ parsed.err \notin {"nil", "none"} => parsed.entries = <<>>
    /\ ret.err \notin {"nil", "none"} => ret.entries = <<>>

C6_Witness ==
    /\ pc = "done"
    /\ scanErr = "read"
    /\ lines = <<HdrLs, HdrGit, HdrEcho>>
    /\ Len(allEntries) = 3
    /\ ret = Returned(<<>>, "read")

\* ------------------------------------------------------------------------
\* C7
\* ------------------------------------------------------------------------

\* C7: a header whose digit field is not the numeral of an int64 still gives
\* its record, with the command text and with timestamp 0.
C7_ZeroTimestamp ==
    (ParsedOk /\ HeaderLinesOnly(lines)) =>
        \A i \in 1..Len(lines) :
            \A line \in {Sanitized(lines[i])} :
                ~FitsInt64(DigitFieldOf(line)) =>
                    /\ Len(parsed.entries) = Len(lines)
                    /\ parsed.entries[i].Command = TrimSpace(RemainderOf(line))
                    /\ parsed.entries[i].Timestamp = ZeroInt64

\* ------------------------------------------------------------------------
\* C8
\* ------------------------------------------------------------------------

\* The end of the run of invalid bytes that starts at i.
RECURSIVE InvalidRunEnd(_, _)
InvalidRunEnd(r, i) ==
    IF i <= Len(r) /\ DecodeWidth(r, i) = 0 THEN InvalidRunEnd(r, i + 1) ELSE i

\* The text r with each of its runs of invalid bytes replaced by one
\* replacement character and every valid rune kept as it is.
RECURSIVE Repaired(_, _)
Repaired(r, i) ==
    IF i > Len(r) THEN <<>>
    ELSE IF DecodeWidth(r, i) > 0
         THEN SubSeq(r, i, i + DecodeWidth(r, i) - 1) \o Repaired(r, i + DecodeWidth(r, i))
         ELSE Replacement \o Repaired(r, InvalidRunEnd(r, i))

C8_CommandsValid ==
    /\ \A k \in 1..Len(allEntries) : Valid(allEntries[k].Command)
    /\ \A k \in 1..Len(parsed.entries) : Valid(parsed.entries[k].Command)
    /\ \A k \in 1..Len(ret.entries) : Valid(ret.entries[k].Command)

C8_NoEncodingError ==
    (parsed.err # "none" /\ scanErr = "nil") => parsed.err = "nil"

C8_LineRepaired ==
    ReadsLine =>
        \A line \in {Repaired(LastLine, 1)} :
            IF HeaderShape(line)
            THEN currentCommand' = RemainderOf(line)
            ELSE Len(currentCommand) > 0 =>
                    /\ Len(currentCommand') >= Len(line)
                    /\ SubSeq(currentCommand', Len(currentCommand') - Len(line) + 1,
                              Len(currentCommand')) = line

C8_TextKept ==
    EmitsRecord => allEntries'[Len(allEntries')].Command = TrimSpace(currentCommand)

\* C8: no command of a record holds an invalid byte sequence.  A line with
\* invalid bytes is taken up like any other: each run of invalid bytes of it
\* becomes one replacement character, the valid text around the run enters
\* the accumulated text as it is and from there the record, and the parse
\* reports no error for it.
C8_ValidCommands ==
    [](C8_CommandsValid /\ C8_NoEncodingError) /\ [][C8_LineRepaired /\ C8_TextKept]_vars

\* "a" EF BF BD C3 A9 EF BF BD " " 0A EF BF BD "x\"
C8_Witness ==
    /\ pc = "parsed"
    /\ parsed.err = "nil"
    /\ lines = <<HdrBad, ContChain>>
    /\ parsed.entries[1].Command =
        <<97, 239, 191, 189, 195, 169, 239, 191, 189, 32, 10, 239, 191, 189, 120, 92>>

\* ------------------------------------------------------------------------
\* C9
\* ------------------------------------------------------------------------

\* The timestamp ts is the one of the header line raw.
IsTimestampOf(ts, raw) ==
    \A line \in {Sanitized(raw)} :
        FitsInt64(DigitFieldOf(line)) => IsValueOf(ts, DigitFieldOf(line))

\* The timestamps tss are, in this order, timestamps of header lines of ls,
\* each of its own header line.
RECURSIVE InHeaderOrder(_, _)
InHeaderOrder(tss, ls) ==
    IF tss = <<>> THEN TRUE
    ELSE IF ls = <<>> THEN FALSE
    ELSE IF IsHeaderLine(Head(ls)) /\ IsTimestampOf(Head(tss), Head(ls))
         THEN InHeaderOrder(Tail(tss), Tail(ls))
         ELSE InHeaderOrder(tss, Tail(ls))

Timestamps(entries) == [k \in 1..Len(entries) |-> entries[k].Timestamp]

C9_Order ==
    /\ pc = "scan" =>
            InHeaderOrder(Timestamps(allEntries)
                              \o (IF Len(currentCommand) > 0 THEN <<currentTimestamp>> ELSE <<>>),
                          lines)
    /\ pc = "parsed" =>
            /\ InHeaderOrder(Timestamps(allEntries), lines)
            /\ parsed.err = "nil" => parsed.entries = allEntries
    /\ pc = "done" => InHeaderOrder(Timestamps(ret.entries), lines)

C9_HeaderStep ==
    (ReadsLine /\ IsHeaderLine(LastLine)) =>
        /\ IsTimestampOf(currentTimestamp', LastLine)
        /\ IF Len(currentCommand) > 0
           THEN /\ Len(allEntries') = Len(allEntries) + 1
                /\ SubSeq(allEntries', 1, Len(allEntries)) = allEntries
                /\ allEntries'[Len(allEntries')].Timestamp = currentTimestamp
           ELSE allEntries' = allEntries

C9_ContinuationStep ==
    (ReadsLine /\ ~IsHeaderLine(LastLine)) =>
        /\ currentTimestamp' = currentTimestamp
        /\ allEntries' = allEntries

C9_EndStep ==
    (pc = "scan" /\ pc' = "parsed") =>
        IF Len(currentCommand) > 0
        THEN /\ Len(allEntries') = Len(allEntries) + 1
             /\ SubSeq(allEntries', 1, Len(allEntries)) = allEntries
             /\ allEntries'[Len(allEntries')].Timestamp = currentTimestamp
        ELSE allEntries' = allEntries

\* C9: the records come in the order of the header lines that opened them,
\* whatever their timestamps, each with the timestamp of its own header
\* line: a header line has the open record appended behind the records so
\* far with the timestamp it was opened with, and only then sets the new
\* timestamp; a continuation line changes neither timestamp nor records.
C9_StreamOrder ==
    []C9_Order /\ [][C9_HeaderStep /\ C9_ContinuationStep /\ C9_EndStep]_vars

\* 1700000000
Ts1700000000 == <<1, 7, 0, 0, 0, 0, 0, 0, 0, 0>>

C9_Witness ==
    /\ pc = "parsed"
    /\ parsed.err = "nil"
    /\ lines = <<HdrEcho, ContWorld, HdrLs>>
    /\ Timestamps(parsed.entries) = <<Ts1700000200, Ts1700000000>>

\* ------------------------------------------------------------------------
\* C10
\* ------------------------------------------------------------------------

C10_NothingBeforeHeader ==
    NoHeaderLine(lines) =>
        /\ currentCommand = <<>>
        /\ currentTimestamp = ZeroInt64
        /\ allEntries = <<>>
        /\ (parsed.err # "none" /\ scanErr = "nil") => parsed = Returned(<<>>, "nil")

C10_OrphanStep ==
    (ReadsLine /\ NoHeaderLine(lines')) =>
        UNCHANGED <<currentCommand, currentTimestamp, allEntries>>

\* C10: a stream without a header line, the empty stream too, gives no
\* record and no error; a line that is no header and comes before the first
\* header leaves the accumulated text, the timestamp and the records as they
\* were at the start of the parse, so that nothing of it reaches a record.
C10_OrphanLines == []C10_NothingBeforeHeader /\ [][C10_OrphanStep]_vars

C10_Witness ==
    /\ pc = "parsed"
    /\ scanErr = "nil"
    /\ lines = <<ContWorld, NineDigits, ContChain>>
    /\ parsed = Returned(<<>>, "nil")

\* ------------------------------------------------------------------------
\* C11
\* ------------------------------------------------------------------------

\* What parseHistory returns for a stream that is read to its end.
ParseOf(ls) == parseHistoryOf(ls, "nil").entries

C11_ParseOfIsParse ==
    pc = "parsed" => parsed = parseHistoryOf(lines, scanErr)

C11_HeaderAppended ==
    pc = "scan" =>
        \A records \in {ParseOf(lines)}, h \in HeaderPool :
            \A record \in {ParseOf(<<h>>)} :
                /\ Len(record) = 1
                /\ ParseOf(Append(lines, h)) = records \o record

C11_EmitsOpenRecordOnly ==
    /\ EmitsRecord => Len(currentCommand) > 0
    /\ allEntries' # allEntries => EmitsRecord
    /\ (ReadsLine /\ IsHeaderLine(LastLine) /\ Len(currentCommand) > 0) => EmitsRecord
    /\ (pc = "scan" /\ pc' = "parsed" /\ Len(currentCommand) > 0) => EmitsRecord

\* C11: the end of the stream closes the open record as a header line does:
\* for a stream S and a header line h the records of S followed by h are the
\* records of S followed by the one record of h alone; and a record is
\* emitted, at a header line or at the end, exactly when the accumulated
\* text is not empty.
C11_EndAsHeader ==
    [](C11_ParseOfIsParse /\ C11_HeaderAppended) /\ [][C11_EmitsOpenRecordOnly]_vars

\* S = ": 0000000001:0;  ", A9 "x\"  and  h = ": 1700000000:0;ls -la"
C11_Witness ==
    /\ pc = "parsed"
    /\ parsed.err = "nil"
    /\ lines = <<HdrBlank, ContChain, HdrLs>>
    /\ Len(parsed.entries) = 2
    /\ parsed.entries = ParseOf(<<HdrBlank, ContChain>>) \o ParseOf(<<HdrLs>>)

\* ------------------------------------------------------------------------
\* C16
\* ------------------------------------------------------------------------

\* parseHistory has not been entered and applyLimitFilter has not been called.
NeverParsed ==
    /\ lines = <<>>
    /\ allEntries = <<>>
    /\ currentCommand = <<>>
    /\ parsed = NotReturned
    /\ limit = 0

C16_OnlyOpenedFileParsed == pc \in {"scan", "parsed"} => fileOpen

C16_OpenErrorReturned ==
    ret.err = "open" => pc = "done" /\ ret.entries = <<>> /\ ~fileOpen /\ NeverParsed

C16_OpenStep ==
    (pc = "start" /\ ~fileOpen') => (pc' = "done" /\ ret' = Returned(<<>>, "open"))

\* C16: when os.Open fails ReadHistory returns the error and no records, and
\* neither parseHistory nor applyLimitFilter runs: lines are read only from
\* an opened file.
C16_OpenFailure ==
    [](C16_OnlyOpenedFileParsed /\ C16_OpenErrorReturned) /\ [][C16_OpenStep]_vars

C16_Witness == pc = "done" /\ ret = Returned(<<>>, "open") /\ NeverParsed

\* ------------------------------------------------------------------------
\* C17
\* ------------------------------------------------------------------------

IsPrefix(s, t) == Len(s) <= Len(t) /\ \A i \in 1..Len(s) : t[i] = s[i]

IsSuffix(s, t) ==
    Len(s) <= Len(t) /\ \A i \in 1..Len(s) : s[i] = t[Len(t) - Len(s) + i]

\* Every step, whatever line it reads, keeps the records already emitted
\* at their positions; the returned sequence is not touched afterwards.
C17_AppendOnlyStep ==
    /\ IsPrefix(allEntries, allEntries')
    /\ Len(allEntries') <= Len(allEntries) + 1
    /\ parsed # NotReturned => parsed' = parsed
    /\ (pc = "scan" /\ pc' = "parsed" /\ scanErr' = "nil") => parsed'.entries = allEntries'

C17_WindowKeepsRecords ==
    (pc = "done" /\ ret.err = "nil") => IsSuffix(ret.entries, parsed.entries)

\* C17: a record is immutable once assembled: the output sequence changes
\* only by an append at its end, no later step changes the timestamp or
\* command at a position already emitted, and window selection returns
\* retained records with timestamp and command unchanged.
C17_Immutable == []C17_WindowKeepsRecords /\ [][C17_AppendOnlyStep]_vars

\* A record emitted at the second header stays as it was while a later
\* continuation line is read; the window keeps the other record.
C17_Witness ==
    /\ pc = "done"
    /\ ret.err = "nil"
    /\ lines = <<HdrLs, HdrEcho, ContWorld>>
    /\ Len(parsed.entries) = 2
    /\ parsed.entries[1] = ParseOf(<<HdrLs>>)[1]
    /\ limit = 1
    /\ ret.entries = <<parsed.entries[2]>>

\* ------------------------------------------------------------------------
\* C12
\* ------------------------------------------------------------------------

\* The longest timestamp field of the lines put to the classifier.
MaxTimestampDigits == 11

\* "17", then zeros: n digits.
Digits(n) == [i \in 1..n |-> IF i = 1 THEN 49 ELSE IF i = 2 THEN 55 ELSE 48]

\* ": ", ":", nothing, " :", "x: "
Markers == {<<58, 32>>, <<58>>, <<>>, <<32, 58>>, <<120, 58, 32>>}

\* nine to MaxTimestampDigits digits, none, ten with a letter among them
TimestampFields ==
    {Digits(n) : n \in (MinTimestampDigits - 1)..MaxTimestampDigits}
        \cup {<<>>, [Digits(MinTimestampDigits) EXCEPT ![5] = 120]}

\* ":", nothing, "::"
Colons == {<<58>>, <<>>, <<58, 58>>}

\* nothing, "0", "15", "x", "-1"
SecondaryFields == {<<>>, <<48>>, <<49, 53>>, <<120>>, <<45, 49>>}

\* ";", nothing
Semicolons == {<<59>>, <<>>}

\* nothing, "x", " ", "ls -la"
Remainders == {<<>>, <<120>>, <<32>>, <<108, 115, 32, 45, 108, 97>>}

ClassifyPool ==
    {m \o t \o c \o d \o s \o r :
        m \in Markers, t \in TimestampFields, c \in Colons,
        d \in SecondaryFields, s \in Semicolons, r \in Remainders}

\* parseHistory at its first line, or at the line after ": 1700000000:0;ls -la",
\* reading one line of ClassifyPool.
ClassifyInit ==
    /\ pc = "scan"
    /\ lines = <<>>
    /\ currentCommand = <<>>
    /\ currentTimestamp = ZeroInt64
    /\ allEntries = <<>>
    /\ scanErr = "nil"
    /\ parsed = NotReturned
    /\ fileOpen = TRUE
    /\ limit = 0
    /\ ret = NotReturned
    /\ CliIdle

ClassifyNext ==
    \E raw \in ClassifyPool :
        /\ lines \in {<<>>, <<HdrLs>>}
        /\ \/ ScanHeaderLine(raw)
           \/ ScanContinuationLine(raw)
           \/ ScanOrphanLine(raw)

ClassifySpec == ClassifyInit /\ [][ClassifyNext]_vars

\* The structure with a remainder that may be empty: ": ", ten or more
\* digits, ":", one or more digits, ";", the rest of the line.
HeaderStructure(s) ==
    /\ Len(s) >= 2
    /\ s[1] = 58
    /\ s[2] = 32
    /\ \E a \in (3 + MinTimestampDigits)..Len(s) :
        /\ s[a] = 58
        /\ \A k \in 3..(a - 1) : IsDigit(s[k])
        /\ \E b \in (a + 2)..Len(s) :
            /\ s[b] = 59
            /\ \A k \in (a + 1)..(b - 1) : IsDigit(s[k])

\* The step closes the open record and starts a new one from the line s.
TakenAsHeader(s) ==
    /\ allEntries' = IF Len(currentCommand) > 0
                     THEN Append(allEntries,
                                 HistoryEntry(currentTimestamp, TrimSpace(currentCommand)))
                     ELSE allEntries
    /\ currentCommand' = RemainderOf(s)
    /\ FitsInt64(DigitFieldOf(s)) => IsValueOf(currentTimestamp', DigitFieldOf(s))

\* The step extends the open record by the line s, or drops the line when
\* no record is open; it closes and starts nothing.
TakenAsContinuation(s) ==
    /\ allEntries' = allEntries
    /\ currentTimestamp' = currentTimestamp
    /\ currentCommand' =
        IF Len(currentCommand) = 0 THEN <<>>
        ELSE IF currentCommand[Len(currentCommand)] = 92
             THEN SubSeq(currentCommand, 1, Len(currentCommand) - 1) \o s
             ELSE currentCommand \o <<10>> \o s

C12_StepAsStated ==
    ReadsLine =>
        \A s \in {Sanitized(LastLine)} :
            IF HeaderStructure(s) THEN TakenAsHeader(s) ELSE TakenAsContinuation(s)

C12_Step ==
    ReadsLine =>
        \A s \in {Sanitized(LastLine)} :
            IF HeaderShape(s) THEN TakenAsHeader(s) ELSE TakenAsContinuation(s)

Min(a, b) == IF a <= b THEN a ELSE b

\* The last n elements of a sequence.
LastOf(seq, n) == SubSeq(seq, Len(seq) - n + 1, Len(seq))

\* The commands of the records i..j, each as a line of its own.
RECURSIVE CommandLines(_, _, _)
CommandLines(records, i, j) ==
    IF i > j THEN <<>>
    ELSE IF i = j THEN records[i].Command \o <<10>>
    ELSE CommandLines(records, i, (i + j) \div 2)
             \o CommandLines(records, (i + j) \div 2 + 1, j)

\* The number of lines of a text: the number of its newlines.
LineCount(text) == Cardinality({k \in 1..Len(text) : text[k] = 10})

\* A prompt with a history context has been built from historyEntries.
ContextBuilt == cpc \in {"defer", "returned"} /\ prompt # EmptyPrompt /\ Len(historyEntries) > 0

ContextHeader == IF prompt.template = "find" THEN FindContextHeader ELSE SuggestContextHeader

ContextLimit ==
    IF prompt.template = "find" THEN findHistoryContextLimit ELSE suggestHistoryContextLimit

\* The text between the two rows of dashes: what follows the header row and
\* the first row of dashes and precedes the last row and the empty line.
ContextBlock ==
    SubSeq(prompt.context, 2 * (Len(ContextHeader) + 2) + 1,
           Len(prompt.context) - (Len(ContextHeader) + 3))

\* C13: the block between the two rows of dashes of formatHistoryContext's
\* output, for L > 0 records and maxEntries > 0, has exactly
\* min(L, maxEntries) lines, and they are the commands of the most recent
\* min(L, maxEntries) records in their order, one line per record.
C13_OneLinePerRecord ==
    ContextBuilt =>
        \A n \in {Min(Len(historyEntries), ContextLimit)} :
            /\ LineCount(ContextBlock) = n
            /\ ContextBlock = CommandLines(LastOf(historyEntries, n), 1, n)

\* ------------------------------------------------------------------------
\* C14
\* ------------------------------------------------------------------------

\* C14: for find --limit N with N > 0 and a history of T records, the
\* records placed in the prompt that is sent are the min(N, T) most recent
\* records of the history, in their order.
C14_LimitSetsPromptEntries ==
    (/\ env.command = "find"
     /\ env.limit > 0
     /\ cpc \in {"defer", "returned"}
     /\ apiCalls = 1) =>
        prompt.entries = LastOf(parsed.entries, Min(env.limit, Len(parsed.entries)))

\* ------------------------------------------------------------------------
\* C15
\* ------------------------------------------------------------------------

\* Nothing of the history file has been looked at: no stat, no reader, no
\* open, no line read.
HistoryUntouched ==
    /\ ~statted
    /\ ~reader
    /\ pc = "start"
    /\ ~fileOpen
    /\ lines = <<>>
    /\ ret = NotReturned

\* No LLM client has been created, closed or called.
NoClient == llmClient = "none" /\ closes = 0 /\ apiCalls = 0 /\ prompt = EmptyPrompt

C15_WithFlag ==
    (env.command = "suggest" /\ env.noHistoryContext) =>
        /\ HistoryUntouched
        /\ historyEntries = <<>>
        /\ apiCalls > 0 => prompt = Prompt("suggest", <<>>, NoContextText)
        /\ cpc = "returned" =>
            /\ out.err \in {"config", "llmclient", "llm", "nil"}
            /\ out.err = "config" <=> env.apiKey = ""

C15_WithoutFlag ==
    (env.command = "suggest" /\ ~env.noHistoryContext) =>
        /\ llmClient # "none" => (pc = "done" /\ ret.err = "nil")
        /\ (cpc = "returned" /\ env.apiKey # "" /\ env.fileState # "ok") =>
            /\ out.err \in {"reader", "history"}
            /\ out.result = ""
            /\ NoClient

C15_SkipStep ==
    (env.command = "suggest" /\ env.noHistoryContext /\ cpc = "reader") =>
        (cpc' = "llm" /\ UNCHANGED <<statted, reader, historyEntries, pc, fileOpen, lines, out>>)

\* C15: with --no-history-context suggest creates no history reader, does
\* not stat, open or read the history file, and hands an empty history to
\* the prompt, so that its result is an LLM or configuration outcome whatever
\* the state of the file; without the flag a history file that cannot be
\* located, opened or read makes suggest return an error with no LLM client
\* created.
C15_NoHistoryContext == [](C15_WithFlag /\ C15_WithoutFlag) /\ [][C15_SkipStep]_vars

\* suggest --no-history-context succeeds although the file does not exist.
C15_Witness ==
    /\ env.command = "suggest"
    /\ env.noHistoryContext
    /\ env.fileState = "missing"
    /\ cpc = "returned"
    /\ out = Output("ls -la", "nil")
    /\ apiCalls = 1
    /\ prompt.context = NoContextText

\* ------------------------------------------------------------------------
\* C18
\* ------------------------------------------------------------------------

C19_CallStep ==
    (cpc = "call" /\ cpc' = "defer" /\ env.command = "find") =>
        IF historyEntries = <<>>
        THEN /\ out' = Output(NoRelevantText, "nil")
             /\ apiCalls' = apiCalls
        ELSE apiCalls' = apiCalls + 1

C19_CalledWithRecords ==
    (env.command = "find" /\ apiCalls > 0) => Len(historyEntries) > 0

\* C19: FindHistoryEntries handed no record returns the text
\* "(No relevant commands found or AI response was empty)" and no error
\* without a call of the Gemini API; the API is called only when there is
\* at least one record.
C19_EmptyHistory == []C19_CalledWithRecords /\ [][C19_CallStep]_vars

\* find on a history file that has a line but no header line.
C19_Witness ==
    /\ env.command = "find"
    /\ env.file = <<ContWorld>>
    /\ cpc = "returned"
    /\ ret = Returned(<<>>, "nil")
    /\ out = Output(NoRelevantText, "nil")
    /\ apiCalls = 0

\* ------------------------------------------------------------------------
\* C20
\* ------------------------------------------------------------------------

C20_FileClosed ==
    /\ fileOpen => pc \in {"scan", "parsed"}
    /\ pc = "done" => ~fileOpen

C20_ClientClosed ==
    /\ closes <= 1
    /\ llmClient = "none" => closes = 0
    /\ llmClient = "open" => (closes = 0 /\ cpc \in {"call", "defer"})
    /\ llmClient = "closed" => (closes = 1 /\ cpc = "returned")
    /\ (cpc = "returned" /\ out.err \in {"llm", "nil"}) => llmClient = "closed"
    /\ (cpc = "returned" /\ out.err \notin {"llm", "nil"}) => llmClient = "none"

\* C20: the history file is open only while ReadHistory parses and is
\* closed when ReadHistory has returned, with records or with a read error;
\* an LLM client that was created is closed exactly once by the time the
\* command returns, whether the call succeeded or failed, and no Close is
\* called when none was created.
C20_Released == C20_FileClosed /\ C20_ClientClosed

\* The history file has been read and closed, the LLM call has failed and
\* the client has been closed.
C20_Witness ==
    /\ cpc = "returned"
    /\ pc = "done"
    /\ Len(lines) > 0
    /\ ~fileOpen
    /\ out.err = "llm"
    /\ llmClient = "closed"
    /\ closes = 1

\* ------------------------------------------------------------------------
\* C21
\* ------------------------------------------------------------------------

\* The number of header lines of a stream.
HeaderCount(ls) == Cardinality({i \in 1..Len(ls) : IsHeaderLine(ls[i])})

\* C21: for every stream parseHistory returns as many records as the stream
\* has header lines: no continuation line makes a started record disappear
\* and none creates a record.
C21_RecordPerHeader ==
    ParsedOk => Len(parsed.entries) = HeaderCount(lines)

\* ------------------------------------------------------------------------
\* C22
\* ------------------------------------------------------------------------

\* C22: every record parseHistory returns has a non-empty command.
C22_NonEmptyCommands ==
    ParsedOk => \A i \in 1..Len(parsed.entries) : Len(parsed.entries[i].Command) > 0

====
